---- MODULE Spec2Model ----
(***************************************************************************)
(* Model of the task pipeline of backend-challenge:                        *)
(*   src/src/api/handler.py              ingestion (POST /tasks)           *)
(*   src/src/queue_processor/handler.py  batch consumer of the FIFO queue  *)
(*                                                                         *)
(* Python values are modelled as records with a "kind".  A Python str is   *)
(* [kind |-> "str", lead, text, len, trail]: `lead`/`trail` count the      *)
(* leading/trailing whitespace characters, `text` names the content that   *)
(* is left after str.strip() and `len` is the length of that content, so   *)
(* that len(), strip() and lower() are computed as Python computes them.   *)
(***************************************************************************)
EXTENDS Integers, Sequences, FiniteSets, TLC

VARIABLES
    \* ---- ingestion process (api/handler.py) and the broker ----
    sqs_client,     \* module global _sqs_client: "None" or a client handle
    request,        \* event of the last ingestion invocation
    response,       \* what that invocation returned
    sendCalls,      \* the send_message calls that invocation issued
    lastOutcome,    \* what send_message did in that invocation ("none": no call)
    queue,          \* messages held by the FIFO broker, oldest first
    issued,         \* uuid4 values generated so far
    accepted,       \* task ids returned in 200 responses, in call order
    received,       \* task ids a consumer receiving one at a time observed
    \* ---- batch consumer (queue_processor/handler.py) ----
    records,        \* event["Records"] of the running invocation
    idx,            \* number of records the for-loop has left behind
    batch_item_failures,
    attempts,       \* per record: how often it was handled
    outcomes,       \* per record: what handling it raised ("ok" if nothing)
    cpc,            \* "loop" | "returned"
    \* ---- repeated process_task calls on one payload ----
    payload,        \* the task_data handed to process_task
    processed,      \* results of the successive process_task calls
    \* ---- concurrent callers of get_sqs_client ----
    tpc,            \* per thread: "test" | "create" | "store" | "done"
    tlocal,         \* per thread: the client it constructed / returned
    constructed,    \* number of boto3.client("sqs") constructions
    \* ---- validate_task / sanitize_task applied to one raw task ----
    raw,            \* the task_data handed to validate_task
    verdict,        \* what validate_task returned for it
    sanitized,      \* what sanitize_task returned for it
    \* ---- the event source redelivering messages to the consumer ----
    history         \* per message id: the outcomes its deliveries ended with

apiVars  == <<sqs_client, request, response, sendCalls, lastOutcome, queue, issued,
             accepted, received>>
consVars == <<records, idx, batch_item_failures, attempts, outcomes, cpc>>
procVars == <<payload, processed>>
thrVars  == <<tpc, tlocal, constructed>>
valVars  == <<raw, verdict, sanitized>>
srcVars  == <<history>>
vars     == <<apiVars, consVars, procVars, thrVars, valVars, srcVars>>

(***************************************************************************)
(* Bounds of the model                                                     *)
(***************************************************************************)
NumUUIDs   == 2     \* uuid4 values that can still be drawn
MaxBatch   == 3     \* records in one consumer batch
MaxCalls   == 3     \* repeated process_task calls on one payload
NumThreads == 3     \* concurrent callers of get_sqs_client

UUIDPool  == <<"uuid-1", "uuid-2", "uuid-3", "uuid-4">>
UUIDs     == {UUIDPool[i] : i \in 1..NumUUIDs}
MsgIdPool == <<"msg-1", "msg-2", "msg-3", "msg-4", "msg-5">>
MsgIds    == {MsgIdPool[i] : i \in 1..MaxBatch}
Threads   == 1..NumThreads

(***************************************************************************)
(* Python / JSON values                                                    *)
(***************************************************************************)
Absent == [kind |-> "absent", lead |-> 0, text |-> "", len |-> 0, trail |-> 0]
Null   == [kind |-> "null",   lead |-> 0, text |-> "", len |-> 0, trail |-> 0]
Num    == [kind |-> "number", lead |-> 0, text |-> "", len |-> 0, trail |-> 0]
Str(lead, text, len, trail) ==
    [kind |-> "str", lead |-> lead, text |-> text, len |-> len, trail |-> trail]
S(text, len) == Str(0, text, len, 0)

isinstance_str(v) == v.kind = "str"
py_len(s)   == s.lead + s.len + s.trail
strip(s)    == [s EXCEPT !.lead = 0, !.trail = 0]
Lower(text) == CASE text = "HIGH" -> "high"
                 [] text = "Low"  -> "low"
                 [] OTHER         -> text
lower(s)    == [s EXCEPT !.text = Lower(s.text)]
truthy(v)   == v.kind = "number" \/ (v.kind = "str" /\ py_len(v) > 0)

Keys == {"task_id", "created_at", "title", "description", "priority", "due_date"}
EmptyDict == [k \in Keys |-> Absent]
\* A decoded JSON document: an object (its keys in `f`) or something else.
Obj(f)    == [kind |-> "object", f |-> f]
NonObj(k) == [kind |-> k, f |-> EmptyDict]

\* `key in task_data`.  None, numbers and booleans are no containers and
\* the test raises TypeError; a JSON string or array answers by its content:
\* "string"/"array" hold none of the field names, "keys_array" is
\* ["title", "description", "priority"].
in_raises(task_data) == task_data.kind \in {"null", "number"}
contains(task_data, key) ==
    CASE task_data.kind = "object"     -> task_data.f[key].kind # "absent"
      [] task_data.kind = "keys_array" -> TRUE
      [] OTHER                         -> FALSE
\* task_data.get(key, ...) exists on dict only.
get_raises(task_data) == task_data.kind # "object"

\* JSON texts.  A well-formed text has a top-level value (`top`) and, when
\* that is an object, one token per member: a quoted string with its
\* characters, the literal null, or a number; a key that is not written has
\* no token.  A malformed text is no JSON at all.
json_token(v) ==
    [tok   |-> CASE v.kind = "str"    -> "string"
                 [] v.kind = "null"   -> "null"
                 [] v.kind = "number" -> "number"
                 [] OTHER             -> "none",
     lead |-> v.lead, chars |-> v.text, len |-> v.len, trail |-> v.trail]
json_value(t) ==
    [kind |-> CASE t.tok = "string" -> "str"
                [] t.tok = "null"   -> "null"
                [] t.tok = "number" -> "number"
                [] OTHER            -> "absent",
     lead |-> t.lead, text |-> t.chars, len |-> t.len, trail |-> t.trail]
json_dumps(doc) ==
    [wellformed |-> TRUE, top |-> doc.kind,
     members |-> [k \in Keys |-> json_token(doc.f[k])]]
Malformed ==
    [wellformed |-> FALSE, top |-> "null", members |-> [k \in Keys |-> json_token(Absent)]]
json_loads(s) ==
    IF s.wellformed
    THEN [raises |-> "none",
          value  |-> [kind |-> s.top, f |-> [k \in Keys |-> json_value(s.members[k])]]]
    ELSE [raises |-> "JSONDecodeError", value |-> NonObj("null")]

(***************************************************************************)
(* api/handler.py                                                          *)
(***************************************************************************)
MaxTitleLen       == 200
MaxDescriptionLen == 2000
valid_priorities  == {S("low", 3), S("medium", 6), S("high", 4)}
IsoTexts          == {"2025-12-31T23:59:59Z", "2025-12-31"}

\* datetime.fromisoformat(due_date.replace("Z", "+00:00")) succeeds
fromisoformat_ok(s) == s.lead = 0 /\ s.trail = 0 /\ s.text \in IsoTexts

Raised(exc)    == [raises |-> exc, is_valid |-> FALSE, error_message |-> ""]
Invalid(msg)   == [raises |-> "none", is_valid |-> FALSE, error_message |-> msg]
Valid          == [raises |-> "none", is_valid |-> TRUE, error_message |-> "None"]

validate_due_date(task_data) ==
    LET due_date == task_data.f["due_date"] IN
    IF due_date.kind \in {"absent", "null"} THEN Valid
    ELSE IF ~isinstance_str(due_date)
         THEN Invalid("due_date must be a string in ISO 8601 format")
    ELSE IF ~fromisoformat_ok(due_date)
         THEN Invalid("due_date must be in ISO 8601 format")
    ELSE Valid

validate_priority(task_data) ==
    IF task_data.f["priority"] \notin valid_priorities
    THEN Invalid("priority must be one of: low, medium, high")
    ELSE validate_due_date(task_data)

validate_description(task_data) ==
    LET description == task_data.f["description"] IN
    IF ~isinstance_str(description) THEN Invalid("description must be a string")
    ELSE IF py_len(strip(description)) = 0 THEN Invalid("description cannot be empty")
    ELSE IF py_len(description) > MaxDescriptionLen
         THEN Invalid("description cannot exceed 2000 characters")
    ELSE validate_priority(task_data)

validate_title(task_data) ==
    LET title == task_data.f["title"] IN
    IF ~isinstance_str(title) THEN Invalid("title must be a string")
    ELSE IF py_len(strip(title)) = 0 THEN Invalid("title cannot be empty")
    ELSE IF py_len(title) > MaxTitleLen
         THEN Invalid("title cannot exceed 200 characters")
    ELSE validate_description(task_data)

\* Mutant: priority treated as optional, defaulting to "low".
validate_task_priority_optional(task_data) ==
    IF in_raises(task_data) THEN Raised("TypeError")
    ELSE IF ~contains(task_data, "title")
         THEN Invalid("Missing required field: title")
    ELSE IF ~contains(task_data, "description")
         THEN Invalid("Missing required field: description")
    ELSE IF get_raises(task_data) THEN Raised("AttributeError")
    ELSE IF ~contains(task_data, "priority")
         THEN validate_title(Obj([task_data.f EXCEPT !["priority"] = S("low", 3)]))
    ELSE validate_title(task_data)

\* Mutant: the presence of priority is tested before that of description.
validate_task_priority_before_description(task_data) ==
    IF in_raises(task_data) THEN Raised("TypeError")
    ELSE IF ~contains(task_data, "title")
         THEN Invalid("Missing required field: title")
    ELSE IF ~contains(task_data, "priority")
         THEN Invalid("Missing required field: priority")
    ELSE IF ~contains(task_data, "description")
         THEN Invalid("Missing required field: description")
    ELSE IF get_raises(task_data) THEN Raised("AttributeError")
    ELSE validate_title(task_data)

validate_task(task_data) ==
    IF in_raises(task_data) THEN Raised("TypeError")
    ELSE IF ~contains(task_data, "title")
         THEN Invalid("Missing required field: title")
    ELSE IF ~contains(task_data, "description")
         THEN Invalid("Missing required field: description")
    ELSE IF ~contains(task_data, "priority")
         THEN Invalid("Missing required field: priority")
    ELSE IF get_raises(task_data) THEN Raised("AttributeError")
    ELSE validate_title(task_data)

\* Mutant: the keys sanitize_task does not know are passed through.
sanitize_task_keep_unknown(task_data) ==
    [k \in Keys |->
        CASE k \in {"title", "description"} -> strip(task_data.f[k])
          [] k = "priority" -> lower(strip(task_data.f[k]))
          [] k = "due_date" ->
                IF contains(task_data, "due_date") /\ truthy(task_data.f[k])
                THEN strip(task_data.f[k]) ELSE Absent
          [] OTHER -> task_data.f[k]]

\* Mutant: title and description are passed on as given.
sanitize_task_untrimmed_text(task_data) ==
    [k \in Keys |->
        CASE k \in {"title", "description"} -> task_data.f[k]
          [] k = "priority" -> lower(strip(task_data.f[k]))
          [] k = "due_date" ->
                IF contains(task_data, "due_date") /\ truthy(task_data.f[k])
                THEN strip(task_data.f[k]) ELSE Absent
          [] OTHER -> Absent]

\* Mutant: priority is trimmed but its case is kept.
sanitize_task_keep_case(task_data) ==
    [k \in Keys |->
        CASE k \in {"title", "description", "priority"} -> strip(task_data.f[k])
          [] k = "due_date" ->
                IF contains(task_data, "due_date") /\ truthy(task_data.f[k])
                THEN strip(task_data.f[k]) ELSE Absent
          [] OTHER -> Absent]

\* Called on validated data only: title, description and priority are str.
sanitize_task(task_data) ==
    [k \in Keys |->
        CASE k \in {"title", "description"} -> strip(task_data.f[k])
          [] k = "priority" -> lower(strip(task_data.f[k]))
          [] k = "due_date" ->
                IF contains(task_data, "due_date") /\ truthy(task_data.f[k])
                THEN strip(task_data.f[k]) ELSE Absent
          [] OTHER -> Absent]
\* What a call of sanitize_task raises: task_data["title"] on a missing key
\* or on something that is no dict, .strip() on something that is no str.
sanitize_raises(task_data) ==
    IF task_data.kind # "object" THEN "TypeError"
    ELSE IF \E k \in {"title", "description", "priority"} : ~contains(task_data, k)
         THEN "KeyError"
    ELSE IF \E k \in {"title", "description", "priority"} :
                ~isinstance_str(task_data.f[k])
         THEN "AttributeError"
    ELSE IF /\ contains(task_data, "due_date")
            /\ truthy(task_data.f["due_date"])
            /\ ~isinstance_str(task_data.f["due_date"])
         THEN "AttributeError"
    ELSE "none"
sanitize_call(task_data) ==
    IF sanitize_raises(task_data) # "none"
    THEN [raises |-> sanitize_raises(task_data), value |-> EmptyDict]
    ELSE [raises |-> "none", value |-> sanitize_task(task_data)]

\* uuid.uuid4(): a value not drawn before (random 122 bits).
uuid4 == UUIDs \ issued
\* datetime.now(timezone.utc).isoformat().replace("+00:00", "Z"): the clock
\* read of this build, later than the reads of all earlier builds.
TsPool == <<"2025-11-13T10:00:00.000001Z", "2025-11-13T10:00:00.000002Z",
            "2025-11-13T10:00:00.000003Z", "2025-11-13T10:00:00.000004Z",
            "2025-11-13T10:00:00.000005Z">>
utcnow == S(TsPool[Cardinality(issued) + 1], 27)

TASK_QUEUE_URL  == "TASK_QUEUE_URL"
MessageGroupId  == "task-processing"

\* get_sqs_client() run without interruption: the handle, and whether this
\* call constructed it.  boto3.client("sqs") is taken to succeed (the Lambda
\* runtime sets the region; credentials are resolved at the first request).
get_sqs_client(cur) ==
    IF cur = "None" THEN [client |-> "sqs-client", created |-> TRUE]
    ELSE [client |-> cur, created |-> FALSE]

\* What sqs.send_message can do: accept the message, raise ClientError
\* (queue missing, throttled), or raise another botocore error
\* (EndpointConnectionError is no ClientError).
BrokerOutcomes == {"ok", "ClientError", "EndpointConnectionError"}

\* Mutant: the envelope carries no created_at.
message_body_without_created_at(task_id, now, task_data) ==
    [k \in Keys |->
        IF task_data[k].kind # "absent" THEN task_data[k]
        ELSE IF k = "task_id" THEN S(task_id, 36) ELSE Absent]

\* message_body = {"task_id": ..., "created_at": ..., **task_data}:
\* a key of task_data replaces the generated one.
message_body(task_id, now, task_data) ==
    [k \in Keys |->
        IF task_data[k].kind # "absent" THEN task_data[k]
        ELSE CASE k = "task_id"    -> S(task_id, 36)
               [] k = "created_at" -> now
               [] OTHER            -> Absent]

\* Mutant: one message group per task instead of the single fixed group.
send_message_call_group_per_task(task_id, now, task_data) ==
    [QueueUrl               |-> TASK_QUEUE_URL,
     MessageBody            |-> json_dumps(Obj(message_body(task_id, now, task_data))),
     MessageGroupId         |-> task_id,
     MessageDeduplicationId |-> task_id]

\* Mutant: one message group per priority.
send_message_call_group_by_priority(task_id, now, task_data) ==
    [QueueUrl               |-> TASK_QUEUE_URL,
     MessageBody            |-> json_dumps(Obj(message_body(task_id, now, task_data))),
     MessageGroupId         |-> task_data["priority"].text,
     MessageDeduplicationId |-> task_id]

\* Mutant: MessageBody = str(message_body), the Python repr of the dict,
\* which is no JSON text.
send_message_call_repr_body(task_id, now, task_data) ==
    [QueueUrl               |-> TASK_QUEUE_URL,
     MessageBody            |-> Malformed,
     MessageGroupId         |-> MessageGroupId,
     MessageDeduplicationId |-> task_id]

send_message_call(task_id, now, task_data) ==
    [QueueUrl               |-> TASK_QUEUE_URL,
     MessageBody            |-> json_dumps(Obj(message_body(task_id, now, task_data))),
     MessageGroupId         |-> MessageGroupId,
     MessageDeduplicationId |-> task_id]

\* Mutant: `except ClientError` logs and returns the task_id instead of
\* raising again.
send_to_queue_swallow(task_data, task_id, now, outcome) ==
    [raises  |-> IF outcome \in {"ok", "ClientError"} THEN "none" ELSE outcome,
     task_id |-> IF outcome \in {"ok", "ClientError"} THEN task_id ELSE "None",
     calls   |-> <<send_message_call(task_id, now, task_data)>>]

\* Mutant: a failed send_message is tried a second time.
send_to_queue_retry(task_data, task_id, now, outcome) ==
    [raises  |-> IF outcome = "ok" THEN "none" ELSE outcome,
     task_id |-> IF outcome = "ok" THEN task_id ELSE "None",
     calls   |-> IF outcome = "ClientError"
                 THEN <<send_message_call(task_id, now, task_data),
                        send_message_call(task_id, now, task_data)>>
                 ELSE <<send_message_call(task_id, now, task_data)>>]

\* send_to_queue: one send_message call; ClientError is logged and re-raised,
\* any other error propagates as it is.
send_to_queue(task_data, task_id, now, outcome) ==
    [raises  |-> IF outcome = "ok" THEN "none" ELSE outcome,
     task_id |-> IF outcome = "ok" THEN task_id ELSE "None",
     calls   |-> <<send_message_call(task_id, now, task_data)>>]

default_headers ==
    [ContentType               |-> "application/json",
     AccessControlAllowOrigin  |-> "*",
     AccessControlAllowHeaders |-> "Content-Type",
     AccessControlAllowMethods |-> "POST,OPTIONS"]

\* The body dict of a response: `keys` are the keys it holds.
ErrorBody(msg) ==
    [keys |-> {"error"}, error |-> msg, task_id |-> "None",
     message |-> "", status |-> ""]
ErrorDetailsBody(msg) ==
    [keys |-> {"error", "details"}, error |-> msg, task_id |-> "None",
     message |-> "", status |-> ""]
SuccessBody(task_id) ==
    [keys |-> {"task_id", "message", "status"}, error |-> "", task_id |-> task_id,
     message |-> "Task created successfully", status |-> "queued"]

\* Mutant: only the success response gets the cross-origin headers.
create_response_cors_on_success(status_code, body) ==
    [statusCode |-> status_code,
     headers    |-> IF status_code = 200 THEN default_headers
                    ELSE [ContentType |-> "application/json"],
     body       |-> body]

create_response(status_code, body) ==
    [statusCode |-> status_code, headers |-> default_headers, body |-> body]

\* An API Gateway event: event.get("body", "{}") finds no body, a str
\* (`text`), or something that is no str (`raw`; API Gateway passes None
\* for an empty body).
EventNoBody    == [body |-> "absent", text |-> Malformed, raw |-> NonObj("null")]
EventStr(text) == [body |-> "str", text |-> text, raw |-> NonObj("null")]
EventRaw(doc)  == [body |-> "raw", text |-> Malformed, raw |-> doc]
event_get_body(event) ==
    IF event.body = "absent" THEN EventStr(json_dumps(Obj(EmptyDict))) ELSE event

\* Mutant: send_to_queue is handed the validated request instead of the
\* sanitized task.
handle_task_data_unsanitized(task_data, task_id, now, outcome) ==
    LET v == validate_task(task_data) IN
    IF v.raises # "none"
    THEN [response |-> create_response(500, ErrorDetailsBody("Internal server error")),
          calls |-> <<>>]
    ELSE IF ~v.is_valid
    THEN [response |-> create_response(400, ErrorBody(v.error_message)),
          calls |-> <<>>]
    ELSE LET sent == send_to_queue(task_data.f, task_id, now, outcome) IN
         [response |->
            CASE sent.raises = "none" ->
                    create_response(200, SuccessBody(sent.task_id))
              [] sent.raises = "ClientError" ->
                    create_response(500, ErrorDetailsBody("Failed to process task"))
              [] OTHER ->
                    create_response(500, ErrorDetailsBody("Internal server error")),
          calls |-> sent.calls]

\* lambda_handler of api/handler.py from the parsed body on.
handle_task_data(task_data, task_id, now, outcome) ==
    LET v == validate_task(task_data) IN
    IF v.raises # "none"
    THEN [response |-> create_response(500, ErrorDetailsBody("Internal server error")),
          calls |-> <<>>]
    ELSE IF ~v.is_valid
    THEN [response |-> create_response(400, ErrorBody(v.error_message)),
          calls |-> <<>>]
    ELSE LET sent == send_to_queue(sanitize_task(task_data), task_id, now, outcome) IN
         [response |->
            CASE sent.raises = "none" ->
                    create_response(200, SuccessBody(sent.task_id))
              [] sent.raises = "ClientError" ->
                    create_response(500, ErrorDetailsBody("Failed to process task"))
              [] OTHER ->
                    create_response(500, ErrorDetailsBody("Internal server error")),
          calls |-> sent.calls]

\* lambda_handler without the inner try around json.loads (lines 203-207):
\* the JSONDecodeError reaches `except Exception`.
api_lambda_handler_no_json_guard(event, task_id, now, outcome) ==
    LET body   == event_get_body(event)
        parsed == json_loads(body.text)
    IN  IF body.body = "str"
        THEN IF parsed.raises # "none"
             THEN [response |->
                        create_response(500, ErrorDetailsBody("Internal server error")),
                   calls |-> <<>>]
             ELSE handle_task_data(parsed.value, task_id, now, outcome)
        ELSE handle_task_data(body.raw, task_id, now, outcome)

api_lambda_handler(event, task_id, now, outcome) ==
    LET body   == event_get_body(event)
        parsed == json_loads(body.text)
    IN  IF body.body = "str"
        THEN IF parsed.raises # "none"
             THEN [response |->
                        create_response(400, ErrorBody("Invalid JSON in request body")),
                   calls |-> <<>>]
             ELSE handle_task_data(parsed.value, task_id, now, outcome)
        ELSE handle_task_data(body.raw, task_id, now, outcome)

(***************************************************************************)
(* The ingestion process: one Lambda process serving invocations one after *)
(* the other, the FIFO broker, and a consumer receiving one message at a   *)
(* time (tests/integration/test_end_to_end.py).                            *)
(***************************************************************************)
ApiTitles       == {Absent, Num, Str(1, "t", 1, 1), S("T", 201)}
ApiDescriptions == {Absent, S("d", 1), Str(1, "", 0, 0)}
ApiPriorities   == {Absent, S("low", 3), S("HIGH", 4)}
ApiDueDates     == {Absent, S("2025-12-31T23:59:59Z", 20), S("2025-13-32", 10)}
ApiExtras       == {Absent, S("caller-supplied", 15)}
TaskObj(x, t, d, p, dd) ==
    Obj([task_id |-> x, created_at |-> x, title |-> t, description |-> d,
         priority |-> p, due_date |-> dd])
\* Requests of every kind: each field absent, ill-typed, invalid or valid;
\* bodies that are no JSON, and JSON that is no object.
ApiDocs ==
    {TaskObj(Absent, t, d, p, dd) :
        t \in ApiTitles, d \in ApiDescriptions, p \in ApiPriorities, dd \in ApiDueDates}
    \cup {NonObj(k) : k \in {"null", "number", "string", "array", "keys_array"}}
Events ==
    {EventNoBody, EventStr(Malformed), EventRaw(NonObj("null"))}
        \cup {EventStr(json_dumps(d)) : d \in ApiDocs}
\* Requests of the pipeline runs: valid tasks of each priority, with and
\* without due_date, with and without fields named like the generated ones,
\* and one request that is rejected.
PipelineEvents ==
    {EventStr(json_dumps(TaskObj(x, Str(1, "t", 1, 1), S("d", 1), p, dd))) :
        x \in ApiExtras, p \in {S("low", 3), S("high", 4)},
        dd \in {Absent, S("2025-12-31T23:59:59Z", 20)}}
    \cup {EventNoBody}

NoEvent    == [body |-> "none", text |-> Malformed, raw |-> NonObj("null")]
NoResponse == create_response(0, ErrorBody(""))

\* The broker's answer to the send_message calls of one invocation.
BrokerAccept(q, calls, outcome) == IF outcome = "ok" THEN q \o calls ELSE q

\* Whether the handler gets as far as send_to_queue for this event.
ReachesSend(event) == api_lambda_handler(event, "None", Null, "ok").calls # <<>>

ClientAfter(calls) ==
    IF calls = <<>> THEN sqs_client ELSE get_sqs_client(sqs_client).client

\* (r is bound by a quantifier over a one-element set so that the handler
\* is evaluated once per step.)
ApiReturn(event, task_id, outcome) ==
    \E r \in {api_lambda_handler(event, task_id, utcnow, outcome)} :
    /\ request'    = event
    /\ response'   = r.response
    /\ sendCalls'  = r.calls
    /\ lastOutcome' = IF r.calls = <<>> THEN "none" ELSE outcome
    /\ sqs_client' = ClientAfter(r.calls)
    /\ queue'      = BrokerAccept(queue, r.calls, outcome)
    /\ issued'     = IF task_id = "None" THEN issued ELSE issued \cup {task_id}
    /\ accepted'   = IF r.response.statusCode = 200
                      THEN Append(accepted, r.response.body.task_id)
                      ELSE accepted
    /\ UNCHANGED received

\* One invocation of the ingestion handler that stops before send_to_queue.
ApiReject(E) ==
    /\ \E event \in E : ~ReachesSend(event) /\ ApiReturn(event, "None", "ok")
    /\ UNCHANGED <<consVars, procVars, thrVars, valVars, srcVars>>

\* One invocation of the ingestion handler that calls send_to_queue.
ApiSubmit(E) ==
    /\ \E event \in E :
            /\ ReachesSend(event)
            /\ \E task_id \in uuid4, outcome \in BrokerOutcomes :
                    ApiReturn(event, task_id, outcome)
    /\ UNCHANGED <<consVars, procVars, thrVars, valVars, srcVars>>

\* The consumer of the integration test: receive_message(MaxNumberOfMessages=1)
\* then delete_message.  A FIFO queue hands out the oldest message of a
\* message group; it orders nothing across groups.
Receive ==
    /\ \E i \in 1..Len(queue) :
        /\ \A j \in 1..(i - 1) : queue[j].MessageGroupId # queue[i].MessageGroupId
        /\ received' = Append(received,
                           json_loads(queue[i].MessageBody).value.f["task_id"].text)
        /\ queue' = SubSeq(queue, 1, i - 1) \o SubSeq(queue, i + 1, Len(queue))
    /\ UNCHANGED <<sqs_client, request, response, sendCalls, lastOutcome, issued, accepted>>
    /\ UNCHANGED <<consVars, procVars, thrVars, valVars, srcVars>>

ApiIdle ==
    /\ sqs_client = "None"
    /\ request = NoEvent
    /\ response = NoResponse
    /\ sendCalls = <<>>
    /\ lastOutcome = "none"
    /\ queue = <<>>
    /\ issued = {}
    /\ accepted = <<>>
    /\ received = <<>>
ConsIdle ==
    /\ records = <<>>
    /\ idx = 0
    /\ batch_item_failures = <<>>
    /\ attempts = <<>>
    /\ outcomes = <<>>
    /\ cpc = "returned"
ProcIdle ==
    /\ payload = NonObj("null")
    /\ processed = <<>>
ThrIdle ==
    /\ tpc = [t \in Threads |-> "done"]
    /\ tlocal = [t \in Threads |-> "None"]
    /\ constructed = 0
ValIdle ==
    /\ raw = NonObj("null")
    /\ verdict = Raised("not called")
    /\ sanitized = [raises |-> "not called", value |-> EmptyDict]
SrcIdle ==
    /\ history = [id \in MsgIds |-> {}]

\* The ingestion process alone, on requests of every kind.
InitApi == ApiIdle /\ ConsIdle /\ ProcIdle /\ ThrIdle /\ ValIdle /\ SrcIdle
NextApi == ApiReject(Events) \/ ApiSubmit(Events)
SpecApi == InitApi /\ [][NextApi]_vars

\* Ingestion, broker and a consumer receiving one message at a time.
NextPipeline == ApiReject(PipelineEvents) \/ ApiSubmit(PipelineEvents) \/ Receive
SpecPipeline == InitApi /\ [][NextPipeline]_vars
(***************************************************************************)
(* queue_processor/handler.py                                              *)
(***************************************************************************)
required_fields == <<"task_id", "title", "description", "priority", "created_at">>

\* The fields the loop of process_task finds missing, by position.
MissingAt(task_data) ==
    {i \in 1..Len(required_fields) : ~contains(task_data, required_fields[i])}
FirstMissing(task_data) ==
    required_fields[CHOOSE i \in MissingAt(task_data) :
                        \A j \in MissingAt(task_data) : i <= j]

NoResult == [task_id |-> Absent, status |-> "", message |-> ""]
Raise(exc, msg)  == [raises |-> exc, error |-> msg, result |-> NoResult]
Return(result)   == [raises |-> "none", error |-> "", result |-> result]

\* Mutant: the result tells a first call from a repeated one.
process_task_counting(task_data) ==
    IF get_raises(task_data) THEN Raise("AttributeError", "get")
    ELSE IF MissingAt(task_data) # {}
         THEN Raise("ProcessingError", FirstMissing(task_data))
    ELSE Return([task_id |-> task_data.f["task_id"],
                 status  |-> "completed",
                 message |-> IF processed = <<>> THEN "Task processed successfully"
                             ELSE "Task already processed"])

\* Mutant: created_at is not among the required fields.
process_task_created_at_optional(task_data) ==
    IF get_raises(task_data) THEN Raise("AttributeError", "get")
    ELSE IF MissingAt(task_data) \ {5} # {}
         THEN Raise("ProcessingError", FirstMissing(task_data))
    ELSE Return([task_id |-> task_data.f["task_id"],
                 status  |-> "completed",
                 message |-> "Task processed successfully"])

\* process_task: task_data.get("task_id") stands before the try block, so
\* what it raises on a payload that is no dict is not wrapped.
process_task(task_data) ==
    IF get_raises(task_data) THEN Raise("AttributeError", "get")
    ELSE IF MissingAt(task_data) # {}
         THEN Raise("ProcessingError", FirstMissing(task_data))
    ELSE Return([task_id |-> task_data.f["task_id"],
                 status  |-> "completed",
                 message |-> "Task processed successfully"])

\* An SQS record: messageId, receiptHandle and a body found by
\* record.get("body", "{}") (absent, a str, or something else).
Record(message_id, body) ==
    [messageId |-> message_id, receiptHandle |-> "receipt", body |-> body]
record_get_body(record) ==
    IF record.body.body = "absent" THEN EventStr(json_dumps(Obj(EmptyDict)))
    ELSE record.body

\* The try block of the loop body: what handling one record raises.
handle_record(record) ==
    LET body == record_get_body(record) IN
    IF body.body = "str"
    THEN IF json_loads(body.text).raises # "none"
         THEN "JSONDecodeError"
         ELSE process_task(json_loads(body.text).value).raises
    ELSE process_task(body.raw).raises

\* Mutant: the failed message id is put in front.
record_failure_front(failures, message_id) ==
    <<[itemIdentifier |-> message_id]>> \o failures

\* batch_item_failures.append({"itemIdentifier": message_id})
record_failure(failures, message_id) ==
    Append(failures, [itemIdentifier |-> message_id])

\* Mutant: a ProcessingError is logged and not reported.
except_clauses_swallow(raised, failures, message_id) ==
    CASE raised = "none"            -> failures
      [] raised = "JSONDecodeError" -> Append(failures, [itemIdentifier |-> message_id])
      [] raised = "ProcessingError" -> failures
      [] OTHER                      -> Append(failures, [itemIdentifier |-> message_id])

\* Mutant: a message id that failed in an earlier delivery is given up.
except_clauses_report_once(raised, failures, message_id) ==
    CASE raised = "none"                 -> failures
      [] "failed" \in history[message_id] -> failures
      [] OTHER -> Append(failures, [itemIdentifier |-> message_id])

\* The except clauses of the loop body: json.JSONDecodeError,
\* ProcessingError, then Exception; each appends the message id.
except_clauses(raised, failures, message_id) ==
    CASE raised = "none"            -> failures
      [] raised = "JSONDecodeError" -> record_failure(failures, message_id)
      [] raised = "ProcessingError" -> record_failure(failures, message_id)
      [] OTHER                      -> record_failure(failures, message_id)

\* Mutant: the loop is left at the first record that fails.
next_record_break(i, raised, n) == IF raised = "none" THEN i + 1 ELSE n + 1

\* for record in event.get("Records", []): the record after record i
next_record(i, raised, n) == i + 1

\* Mutant: the loop deletes from the queue the message it has processed.
ConsumerStepDeleting ==
    /\ cpc = "loop"
    /\ idx < Len(records)
    /\ LET i      == idx + 1
           raised == handle_record(records[i])
       IN /\ attempts' = [attempts EXCEPT ![i] = @ + 1]
          /\ outcomes' = [outcomes EXCEPT ![i] = raised]
          /\ batch_item_failures' =
                except_clauses(raised, batch_item_failures, records[i].messageId)
          /\ idx' = next_record(i, raised, Len(records)) - 1
          /\ queue' = IF raised = "none" /\ queue # <<>> THEN Tail(queue) ELSE queue
    /\ UNCHANGED <<records, cpc>>
    /\ UNCHANGED <<sqs_client, request, response, sendCalls, lastOutcome, issued, accepted,
                   received>>
    /\ UNCHANGED <<procVars, thrVars, valVars, srcVars>>

\* One iteration of the for-loop of lambda_handler.
ConsumerStep ==
    /\ cpc = "loop"
    /\ idx < Len(records)
    /\ LET i      == idx + 1
           raised == handle_record(records[i])
       IN /\ attempts' = [attempts EXCEPT ![i] = @ + 1]
          /\ outcomes' = [outcomes EXCEPT ![i] = raised]
          /\ batch_item_failures' =
                except_clauses(raised, batch_item_failures, records[i].messageId)
          /\ idx' = next_record(i, raised, Len(records)) - 1
    /\ UNCHANGED <<records, cpc>>
    /\ UNCHANGED <<apiVars, procVars, thrVars, valVars, srcVars>>

\* return {"batchItemFailures": batch_item_failures}
ConsumerReturn ==
    /\ cpc = "loop"
    /\ idx >= Len(records)
    /\ cpc' = "returned"
    /\ UNCHANGED <<records, idx, batch_item_failures, attempts, outcomes>>
    /\ UNCHANGED <<apiVars, procVars, thrVars, valVars, srcVars>>

FullTask(id, dd) ==
    Obj([task_id |-> S(id, 36), created_at |-> S(TsPool[1], 27),
         title |-> S("t", 1), description |-> S("d", 1),
         priority |-> S("high", 4), due_date |-> dd])
Without(doc, key) == Obj([doc.f EXCEPT ![key] = Absent])

\* Bodies the broker can deliver: envelopes as ingestion builds them,
\* payloads that lack fields, JSON that is no object, text that is no JSON,
\* and a record without body.
ConsumerBodies ==
    {EventStr(json_dumps(FullTask("uuid-1", Absent))),
     EventStr(json_dumps(FullTask("uuid-2", S("2025-12-31", 10)))),
     EventStr(json_dumps(Without(FullTask("uuid-3", Absent), "description"))),
     EventStr(json_dumps(NonObj("array"))),
     EventStr(Malformed),
     EventNoBody}

SeqsUpTo(X, n) == UNION {[1..k -> X] : k \in 0..n}
Injective(f) == \A i, j \in DOMAIN f : f[i] = f[j] => i = j
\* Batches of at most MaxBatch records whose message ids are distinct.
Batches ==
    {[i \in DOMAIN ids |-> Record(ids[i], bodies[i])] :
        <<ids, bodies>> \in
            {p \in SeqsUpTo(MsgIds, MaxBatch) \X SeqsUpTo(ConsumerBodies, MaxBatch) :
                Len(p[1]) = Len(p[2]) /\ Injective(p[1])}}

InitConsumer ==
    /\ records \in Batches
    /\ idx = 0
    /\ batch_item_failures = <<>>
    /\ attempts = [i \in DOMAIN records |-> 0]
    /\ outcomes = [i \in DOMAIN records |-> "pending"]
    /\ cpc = "loop"
    /\ ApiIdle /\ ProcIdle /\ ThrIdle /\ ValIdle /\ SrcIdle
NextConsumer == ConsumerStep \/ ConsumerReturn
SpecConsumer == InitConsumer /\ [][NextConsumer]_vars

(***************************************************************************)
(* The batch consumer on an event whose Records may hold items of any      *)
(* shape: SQS records, and items that are no dict (None, a str).           *)
(* record.get("messageId") at line 90 stands before the try block.         *)
(***************************************************************************)
NonRecord(k) == [shape |-> k]
NonRecords   == {NonRecord("null"), NonRecord("string")}
\* Whether the item has a get method (is a dict).
is_record(item) == "messageId" \in DOMAIN item
AnyItems == ConsumerBodies \cup NonRecords
AnyBatches ==
    {[i \in DOMAIN items |->
        IF items[i] \in NonRecords THEN items[i] ELSE Record(MsgIdPool[i], items[i])] :
        items \in SeqsUpTo(AnyItems, MaxBatch)}

\* One iteration of the loop on a record that is a dict.
ConsumerStepRecord ==
    /\ cpc = "loop"
    /\ idx < Len(records)
    /\ is_record(records[idx + 1])
    /\ ConsumerStep
\* record.get("messageId") on an item that is no dict: the AttributeError
\* is raised outside the try block and leaves lambda_handler.
ConsumerRaise ==
    /\ cpc = "loop"
    /\ idx < Len(records)
    /\ ~is_record(records[idx + 1])
    /\ cpc' = "raised"
    /\ UNCHANGED <<records, idx, batch_item_failures, attempts, outcomes>>
    /\ UNCHANGED <<apiVars, procVars, thrVars, valVars, srcVars>>

InitConsumerAny ==
    /\ records \in AnyBatches
    /\ idx = 0
    /\ batch_item_failures = <<>>
    /\ attempts = [i \in DOMAIN records |-> 0]
    /\ outcomes = [i \in DOMAIN records |-> "pending"]
    /\ cpc = "loop"
    /\ ApiIdle /\ ProcIdle /\ ThrIdle /\ ValIdle /\ SrcIdle
NextConsumerAny == ConsumerStepRecord \/ ConsumerRaise \/ ConsumerReturn
SpecConsumerAny == InitConsumerAny /\ [][NextConsumerAny]_vars

(***************************************************************************)
(* process_task called again and again on one payload, as under            *)
(* at-least-once delivery.                                                 *)
(***************************************************************************)
Presence == [Keys -> BOOLEAN]
PayloadOf(has, id) ==
    Obj([k \in Keys |->
            IF ~has[k] THEN Absent
            ELSE IF k = "task_id" THEN S(id, 36)
            ELSE S(k, 1)])
Payloads ==
    {PayloadOf(has, id) : has \in Presence, id \in {"uuid-1", "uuid-2"}}
        \cup {NonObj(k) : k \in {"null", "number", "string", "array"}}

ProcessCall ==
    /\ Len(processed) < MaxCalls
    /\ processed' = Append(processed, process_task(payload))
    /\ UNCHANGED payload
    /\ UNCHANGED <<apiVars, consVars, thrVars, valVars, srcVars>>

InitProcess ==
    /\ payload \in Payloads
    /\ processed = <<>>
    /\ ApiIdle /\ ConsIdle /\ ThrIdle /\ ValIdle /\ SrcIdle
NextProcess == ProcessCall
SpecProcess == InitProcess /\ [][NextProcess]_vars

(***************************************************************************)
(* get_sqs_client called by several threads of one process: the test of    *)
(* the global, the construction and the assignment are separate steps.     *)
(***************************************************************************)
ClientPool == <<"sqs-client-1", "sqs-client-2", "sqs-client-3", "sqs-client-4",
                "sqs-client-5">>

\* if _sqs_client is None:
ThreadTest(t) ==
    /\ tpc[t] = "test"
    /\ tpc' = [tpc EXCEPT ![t] = IF sqs_client = "None" THEN "create" ELSE "return"]
    /\ UNCHANGED <<sqs_client, tlocal, constructed>>

\* boto3.client("sqs")
ThreadCreate(t) ==
    /\ tpc[t] = "create"
    /\ constructed' = constructed + 1
    /\ tlocal' = [tlocal EXCEPT ![t] = ClientPool[constructed + 1]]
    /\ tpc' = [tpc EXCEPT ![t] = "store"]
    /\ UNCHANGED sqs_client

\* _sqs_client = <the new client>
ThreadStore(t) ==
    /\ tpc[t] = "store"
    /\ sqs_client' = tlocal[t]
    /\ tpc' = [tpc EXCEPT ![t] = "return"]
    /\ UNCHANGED <<tlocal, constructed>>

\* return _sqs_client
ThreadReturn(t) ==
    /\ tpc[t] = "return"
    /\ tlocal' = [tlocal EXCEPT ![t] = sqs_client]
    /\ tpc' = [tpc EXCEPT ![t] = "done"]
    /\ UNCHANGED <<sqs_client, constructed>>

ThreadFrame ==
    /\ UNCHANGED <<request, response, sendCalls, lastOutcome, queue, issued, accepted,
                   received>>
    /\ UNCHANGED <<consVars, procVars, valVars, srcVars>>

InitClient ==
    /\ ApiIdle /\ ConsIdle /\ ProcIdle /\ ValIdle /\ SrcIdle
    /\ tpc = [t \in Threads |-> "test"]
    /\ tlocal = [t \in Threads |-> "None"]
    /\ constructed = 0
NextClient ==
    \/ \E t \in Threads : ThreadTest(t) /\ ThreadFrame
    \/ \E t \in Threads : ThreadCreate(t) /\ ThreadFrame
    \/ \E t \in Threads : ThreadStore(t) /\ ThreadFrame
    \/ \E t \in Threads : ThreadReturn(t) /\ ThreadFrame
SpecClient == InitClient /\ [][NextClient]_vars

(***************************************************************************)
(* validate_task and sanitize_task called on one raw task, as the unit     *)
(* tests call them (tests/unit/test_api_handler.py, TestValidateTask and   *)
(* TestSanitizeTask): each field absent, ill-typed, padded with            *)
(* whitespace, and at the length limits.                                   *)
(***************************************************************************)
RawTitles ==
    {Absent, Num, S("t", 1), Str(1, "t", 1, 1), Str(1, "", 0, 1),
     S("T", 200), S("T", 201), Str(1, "T", 199, 1), Str(1, "", 0, 200)}
RawDescriptions ==
    {Absent, Num, S("d", 1), Str(0, "d", 1, 2), Str(2, "", 0, 0),
     S("D", 2000), S("D", 2001), Str(1, "D", 1999, 1)}
RawPriorities ==
    {Absent, Num, S("low", 3), S("medium", 6), S("high", 4), S("HIGH", 4),
     Str(1, "low", 3, 1), S("urgent", 6)}
RawDueDates ==
    {Absent, Null, Num, S("2025-12-31T23:59:59Z", 20), S("2025-12-31", 10),
     Str(1, "2025-12-31", 10, 1), S("2025-13-32", 10), S("", 0),
     Str(1, "", 0, 1)}
RawTasks ==
    {TaskObj(Absent, t, d, p, dd) :
        t \in RawTitles, d \in RawDescriptions, p \in RawPriorities,
        dd \in RawDueDates}

ValidateCall ==
    /\ verdict' = validate_task(raw)
    /\ verdict' # verdict
    /\ UNCHANGED <<raw, sanitized>>
    /\ UNCHANGED <<apiVars, consVars, procVars, thrVars, srcVars>>
SanitizeCall ==
    /\ sanitized' = sanitize_call(raw)
    /\ sanitized' # sanitized
    /\ UNCHANGED <<raw, verdict>>
    /\ UNCHANGED <<apiVars, consVars, procVars, thrVars, srcVars>>

InitValidate ==
    /\ raw \in RawTasks
    /\ verdict = Raised("not called")
    /\ sanitized = [raises |-> "not called", value |-> EmptyDict]
    /\ ApiIdle /\ ConsIdle /\ ProcIdle /\ ThrIdle /\ SrcIdle
NextValidate == ValidateCall \/ SanitizeCall
SpecValidate == InitValidate /\ [][NextValidate]_vars

(***************************************************************************)
(* Ingestion and consumer end to end (tests/integration/test_end_to_end.py *)
(* test_task_creation_and_processing, test_task_with_all_priorities):      *)
(* accepted tasks are enqueued, the oldest messages are received and       *)
(* handed, bodies untouched, to the consumer as the records of one event;  *)
(* after its return the messages it did not report are deleted.            *)
(***************************************************************************)
E2EEvents ==
    {EventStr(json_dumps(TaskObj(Absent, Str(1, "t", 1, 1), S("d", 1), p, dd))) :
        p \in valid_priorities, dd \in {Absent, S("2025-12-31T23:59:59Z", 20)}}
    \cup {EventNoBody}

Min(a, b) == IF a < b THEN a ELSE b
\* The record the event source builds for the i-th received message.
RecordOf(i, message) == Record(MsgIdPool[i], EventStr(message.MessageBody))
Deliver ==
    /\ cpc = "returned"
    /\ records = <<>>
    /\ \E n \in 1..Min(Len(queue), MaxBatch) :
            /\ records' = [i \in 1..n |-> RecordOf(i, queue[i])]
            /\ attempts' = [i \in 1..n |-> 0]
            /\ outcomes' = [i \in 1..n |-> "pending"]
    /\ idx' = 0
    /\ batch_item_failures' = <<>>
    /\ cpc' = "loop"
    /\ UNCHANGED <<apiVars, procVars, thrVars, valVars, srcVars>>
\* Whether the consumer reported the i-th record of the event as failed.
ReportedFailed(i) ==
    \E j \in DOMAIN batch_item_failures :
        batch_item_failures[j].itemIdentifier = records[i].messageId
RECURSIVE Kept(_)
\* Of the first n received messages, those reported as failed, in order.
Kept(n) ==
    IF n = 0 THEN <<>>
    ELSE IF ReportedFailed(n) THEN Append(Kept(n - 1), queue[n]) ELSE Kept(n - 1)
Delete ==
    /\ cpc = "returned"
    /\ records # <<>>
    /\ queue' = Kept(Len(records)) \o SubSeq(queue, Len(records) + 1, Len(queue))
    /\ records' = <<>>
    /\ idx' = 0
    /\ batch_item_failures' = <<>>
    /\ attempts' = <<>>
    /\ outcomes' = <<>>
    /\ UNCHANGED cpc
    /\ UNCHANGED <<sqs_client, request, response, sendCalls, lastOutcome, issued, accepted,
                   received>>
    /\ UNCHANGED <<procVars, thrVars, valVars, srcVars>>

NextE2E ==
    \/ ApiReject(E2EEvents)
    \/ ApiSubmit(E2EEvents)
    \/ Deliver
    \/ ConsumerStep
    \/ ConsumerReturn
    \/ Delete
SpecE2E == InitApi /\ [][NextE2E]_vars

(***************************************************************************)
(* The consumer under at-least-once delivery: the event source holds       *)
(* messages whose bodies never change and hands any of them, any number of *)
(* times, to invocations of lambda_handler; after each return it notes,    *)
(* per message id, whether the response listed that id in                  *)
(* batchItemFailures.                                                      *)
(***************************************************************************)
StoredBodies ==
    <<EventStr(json_dumps(FullTask("uuid-1", Absent))),
      EventStr(json_dumps(Without(FullTask("uuid-3", Absent), "description"))),
      EventStr(Malformed),
      EventStr(json_dumps(NonObj("array"))),
      EventStr(json_dumps(FullTask("uuid-2", S("2025-12-31", 10))))>>
\* The body the event source holds for a message id.
StoredBody(message_id) ==
    StoredBodies[CHOOSE i \in 1..MaxBatch : MsgIdPool[i] = message_id]
\* The event source invokes the handler with a batch of stored messages;
\* a message may be in it more than once.
Redeliver ==
    /\ cpc = "returned"
    /\ records = <<>>
    /\ \E ids \in SeqsUpTo(MsgIds, MaxBatch) \ {<<>>} :
            /\ records' = [i \in DOMAIN ids |-> Record(ids[i], StoredBody(ids[i]))]
            /\ attempts' = [i \in DOMAIN ids |-> 0]
            /\ outcomes' = [i \in DOMAIN ids |-> "pending"]
    /\ idx' = 0
    /\ batch_item_failures' = <<>>
    /\ cpc' = "loop"
    /\ UNCHANGED <<apiVars, procVars, thrVars, valVars, srcVars>>
\* How the deliveries of a message id in the returned invocation ended.
DeliveryOutcomes(message_id) ==
    {IF ReportedFailed(i) THEN "failed" ELSE "succeeded" :
        i \in {j \in DOMAIN records : records[j].messageId = message_id}}
\* The event source takes the response and notes each message's outcome.
Settle ==
    /\ cpc = "returned"
    /\ records # <<>>
    /\ history' = [id \in MsgIds |-> history[id] \cup DeliveryOutcomes(id)]
    /\ records' = <<>>
    /\ idx' = 0
    /\ batch_item_failures' = <<>>
    /\ attempts' = <<>>
    /\ outcomes' = <<>>
    /\ UNCHANGED cpc
    /\ UNCHANGED <<apiVars, procVars, thrVars, valVars>>

NextRedelivery ==
    \/ Redeliver
    \/ ConsumerStep
    \/ ConsumerReturn
    \/ Settle
SpecRedelivery == InitApi /\ [][NextRedelivery]_vars
(***************************************************************************)
(* Properties                                                              *)
(***************************************************************************)
\* The task data an event carries, when its body decodes at all.
Decodes(event) ==
    event.body \in {"absent", "raw"}
        \/ (event.body = "str" /\ event.text.wellformed)
RequestDoc(event) ==
    CASE event.body = "absent" -> Obj(EmptyDict)
      [] event.body = "raw"    -> event.raw
      [] OTHER                 -> json_loads(event.text).value
\* A JSON object without title, description or priority.
LacksRequired(event) ==
    /\ Decodes(event)
    /\ RequestDoc(event).kind = "object"
    /\ \E k \in {"title", "description", "priority"} :
            RequestDoc(event).f[k].kind = "absent"
Rejected400(resp) ==
    /\ resp.statusCode = 400
    /\ resp.body.keys = {"error"}
    /\ resp.body.error # ""

\* C1: an invocation whose input is a JSON object lacking title,
\* description or priority returns 400 with an error message, issues no
\* send_message call and leaves the queue as it was.
C1_MissingFieldRejected ==
    [][LacksRequired(request') =>
            /\ Rejected400(response')
            /\ sendCalls' = <<>>
            /\ queue' = queue]_vars
\* C1 happened: a request lacking a field was rejected while the queue held
\* a message.
C1_Witness ==
    /\ LacksRequired(request)
    /\ RequestDoc(request).f["title"].kind = "str"
    /\ response.statusCode = 400
    /\ Len(queue) > 0

\* C4: an invocation issues exactly one send_message call when validation
\* succeeds, whatever the broker answers, and none when it does not.
Validates(event) ==
    /\ Decodes(event)
    /\ RequestDoc(event).kind = "object"
    /\ validate_task(RequestDoc(event)).is_valid
C4_OneEnqueueAttempt ==
    request # NoEvent =>
        Len(sendCalls) = IF Validates(request) THEN 1 ELSE 0
\* C4 happened: the one attempt failed with ClientError and was not repeated.
C4_Witness ==
    /\ Validates(request)
    /\ response.statusCode = 500
    /\ response.body.error = "Failed to process task"
    /\ Len(sendCalls) = 1

\* C5: the deduplication id of every send_message call equals the task_id
\* inside the message body, for the messages on the queue as well; and a
\* 200 response reports that same id.
BodyTaskId(msg) == json_loads(msg.MessageBody).value.f["task_id"]
DedupIsBodyId(msg) == BodyTaskId(msg) = S(msg.MessageDeduplicationId, 36)
QueueTaskIds == [i \in DOMAIN queue |-> BodyTaskId(queue[i]).text]
C6_OrderPreserved == accepted = received \o QueueTaskIds
\* C6 happened: two accepted tasks were both received.
C6_Witness ==
    /\ Len(accepted) >= 2
    /\ Len(received) >= 2
    /\ received[1] # received[2]

\* What the handling of record i raised, by kind.
DecodeFailure(i)     == outcomes[i] = "JSONDecodeError"
ProcessingFailure(i) == outcomes[i] \notin {"none", "JSONDecodeError", "pending"}
Reported(i) ==
    {j \in DOMAIN batch_item_failures :
        batch_item_failures[j].itemIdentifier = records[i].messageId}

\* C2: in the returned batchItemFailures a record has exactly one entry if
\* its handling raised a decode or a processing failure and none otherwise;
\* nothing else is in it.
C2_FailuresAreTheFailedItems ==
    cpc = "returned" =>
        /\ \A i \in DOMAIN records :
                Cardinality(Reported(i)) =
                    IF DecodeFailure(i) \/ ProcessingFailure(i) THEN 1 ELSE 0
        /\ \A j \in DOMAIN batch_item_failures :
                \E i \in DOMAIN records : j \in Reported(i)
\* C2 happened: a batch returned with a decode failure, a processing
\* failure and a success.
C2_Witness ==
    /\ cpc = "returned"
    /\ \E i, j, k \in DOMAIN records :
            /\ DecodeFailure(i) /\ outcomes[j] = "ProcessingError"
            /\ outcomes[k] = "none"
            /\ Reported(k) = {} /\ Reported(i) # {} /\ Reported(j) # {}

\* What a record raises when it is handled alone, by its body: a text
\* that is no JSON, a document that is no object, an object lacking one of
\* the five required fields, or nothing.
OwnOutcome(record) ==
    LET doc == IF record.body.body = "absent" THEN Obj(EmptyDict)
               ELSE IF record.body.body = "raw" THEN record.body.raw
               ELSE json_loads(record.body.text).value
    IN  IF record.body.body = "str" /\ ~record.body.text.wellformed
        THEN "JSONDecodeError"
        ELSE IF doc.kind # "object" THEN "AttributeError"
        ELSE IF \E k \in Keys \ {"due_date"} : doc.f[k].kind = "absent"
        THEN "ProcessingError"
        ELSE "none"

\* C3: the records the loop has passed were each attempted once, with the
\* outcome their own body gives; the loop returns only after the last
\* record, whatever the earlier records raised.
C3_EveryItemAttemptedOnce ==
    /\ \A i \in DOMAIN records :
            i <= idx => attempts[i] = 1 /\ outcomes[i] = OwnOutcome(records[i])
    /\ cpc = "returned" => \A i \in DOMAIN records : attempts[i] = 1
\* C3 happened: the first record failed and a later one was processed.
C3_Witness ==
    /\ cpc = "returned"
    /\ Len(records) >= 3
    /\ outcomes[1] = "JSONDecodeError"
    /\ outcomes[2] = "ProcessingError"
    /\ outcomes[3] = "none" /\ attempts[3] = 1

\* The message ids of the failed records among the first n, in batch order.
RECURSIVE FailedIds(_)
FailedIds(n) ==
    IF n = 0 THEN <<>>
    ELSE IF outcomes[n] \notin {"none", "pending"}
         THEN Append(FailedIds(n - 1), records[n].messageId)
         ELSE FailedIds(n - 1)
\* C7: at every point of the walk batch_item_failures is the sequence of
\* the failed message ids among the records passed so far, in batch order,
\* and the records are attempted front to back.
C7_FailuresInEncounterOrder ==
    /\ [j \in DOMAIN batch_item_failures |-> batch_item_failures[j].itemIdentifier]
            = FailedIds(idx)
    /\ \A i \in DOMAIN records : attempts[i] = IF i <= idx THEN 1 ELSE 0
\* C7 happened: two failures were reported around a success, in a batch
\* whose message ids are not in sorted order.
C7_Witness ==
    /\ cpc = "returned"
    /\ Len(records) >= 3
    /\ Len(batch_item_failures) = 2
    /\ outcomes[2] = "none"
    /\ records[1].messageId = "msg-3" /\ records[3].messageId = "msg-1"

LacksRequiredField(doc) ==
    \E k \in {"task_id", "title", "description", "priority", "created_at"} :
        doc.f[k].kind = "absent"
C9_ProcessingErrorIffFieldMissing ==
    payload.kind = "object" =>
        \A i \in DOMAIN processed :
            IF LacksRequiredField(payload)
            THEN processed[i].raises = "ProcessingError"
            ELSE /\ processed[i].raises = "none"
                 /\ processed[i].result.status = "completed"
                 /\ processed[i].result.task_id = payload.f["task_id"]
\* C9 happened: a payload lacking only created_at raised ProcessingError.
C9_Witness ==
    /\ payload.kind = "object"
    /\ payload.f["created_at"].kind = "absent"
    /\ \A k \in Keys \ {"created_at"} : payload.f[k].kind = "str"
    /\ Len(processed) >= 1
    /\ processed[1].raises = "ProcessingError"

\* C10: the client is constructed at most once and every caller of
\* get_sqs_client that has returned holds the same handle.
C10_ClientCreatedOnce ==
    /\ constructed <= 1
    /\ \A t, u \in Threads :
            tpc[t] = "done" /\ tpc[u] = "done" => tlocal[t] = tlocal[u]

\* C12: the status code follows from the outcome of the invocation and is
\* 400, 500 or 200: 400 with an error exactly when the body is no JSON or
\* validate_task reports a violation; 200 with task_id, message and status
\* "queued" exactly when send_message succeeded; 500 with an error exactly
\* when send_message failed or validation itself raised.
ValidationFailed(event) ==
    \/ ~Decodes(event)
    \/ /\ validate_task(RequestDoc(event)).raises = "none"
       /\ ~validate_task(RequestDoc(event)).is_valid
ValidationRaised(event) ==
    /\ Decodes(event)
    /\ validate_task(RequestDoc(event)).raises # "none"
C12_StatusByOutcome ==
    request # NoEvent =>
        /\ response.statusCode \in {200, 400, 500}
        /\ response.statusCode = 400 <=> ValidationFailed(request)
        /\ response.statusCode = 400 =>
                "error" \in response.body.keys /\ response.body.error # ""
        /\ response.statusCode = 200 <=> lastOutcome = "ok"
        /\ response.statusCode = 200 =>
                /\ response.body.keys = {"task_id", "message", "status"}
                /\ response.body.status = "queued"
                /\ response.body.message # ""
                /\ response.body.task_id \in UUIDs
        /\ response.statusCode = 500 <=>
                \/ lastOutcome \in {"ClientError", "EndpointConnectionError"}
                \/ ValidationRaised(request)
        /\ response.statusCode = 500 =>
                "error" \in response.body.keys /\ response.body.error # ""
\* C12 happened: a body that is no JSON was answered 400 after an earlier
\* request had been enqueued.
C12_Witness ==
    /\ request # NoEvent
    /\ ~Decodes(request)
    /\ response.statusCode = 400
    /\ response.body.error = "Invalid JSON in request body"
    /\ Len(queue) > 0


\* C13: validate_task accepts a raw task exactly when every field meets its
\* constraint with lengths measured after trimming (title 1..200,
\* description 1..2000, priority one of low/medium/high, due_date absent or
\* an ISO-8601 string), and it reports a length error exactly when the
\* trimmed title is longer than 200 or the trimmed description longer than
\* 2000 characters.
TrimmedLen(v) == v.len
Called == verdict # Raised("not called")
WithinLimit(v, limit) == v.kind = "str" /\ TrimmedLen(v) >= 1 /\ TrimmedLen(v) <= limit
PriorityOk(v) == v \in {S("low", 3), S("medium", 6), S("high", 4)}
DueDateOk(v) ==
    \/ v.kind \in {"absent", "null"}
    \/ v \in {S("2025-12-31T23:59:59Z", 20), S("2025-12-31", 10)}
MeetsConstraints(task) ==
    /\ WithinLimit(task.f["title"], 200)
    /\ WithinLimit(task.f["description"], 2000)
    /\ PriorityOk(task.f["priority"])
    /\ DueDateOk(task.f["due_date"])
TrimmedTooLong(task) ==
    \/ task.f["title"].kind = "str" /\ TrimmedLen(task.f["title"]) > 200
    \/ task.f["description"].kind = "str" /\ TrimmedLen(task.f["description"]) > 2000
LengthErrors ==
    {"title cannot exceed 200 characters", "description cannot exceed 2000 characters"}
C13_AcceptsIffConstraintsAfterTrim ==
    Called =>
        /\ verdict.is_valid <=> MeetsConstraints(raw)
        /\ verdict.error_message \in LengthErrors => TrimmedTooLong(raw)

\* C14: validate_task reports the first violated check of the fixed order
\* title presence, description presence, priority presence, title
\* type/empty/length, description type/empty/length, priority enum,
\* due_date format, and nothing when no check is violated; the message is a
\* function of the input alone.  (Each check is the one the code makes:
\* the length checks measure the string as given.)
Field(task, k) == task.f[k]
Check(violated, message) == [violated |-> violated, message |-> message]
Checks(task) ==
    << Check(Field(task, "title").kind = "absent", "Missing required field: title"),
       Check(Field(task, "description").kind = "absent",
             "Missing required field: description"),
       Check(Field(task, "priority").kind = "absent", "Missing required field: priority"),
       Check(Field(task, "title").kind # "str", "title must be a string"),
       Check(Field(task, "title").len = 0, "title cannot be empty"),
       Check(py_len(Field(task, "title")) > 200, "title cannot exceed 200 characters"),
       Check(Field(task, "description").kind # "str", "description must be a string"),
       Check(Field(task, "description").len = 0, "description cannot be empty"),
       Check(py_len(Field(task, "description")) > 2000,
             "description cannot exceed 2000 characters"),
       Check(~PriorityOk(Field(task, "priority")),
             "priority must be one of: low, medium, high"),
       Check(Field(task, "due_date").kind = "number",
             "due_date must be a string in ISO 8601 format"),
       Check(~DueDateOk(Field(task, "due_date")), "due_date must be in ISO 8601 format") >>
Violated(task) == {i \in DOMAIN Checks(task) : Checks(task)[i].violated}
FirstViolation(task) ==
    IF Violated(task) = {} THEN "None"
    ELSE Checks(task)[CHOOSE i \in Violated(task) : \A j \in Violated(task) : i <= j].message
C14_FirstFailureReported ==
    Called =>
        /\ verdict.raises = "none"
        /\ verdict.error_message = FirstViolation(raw)
        /\ verdict.is_valid <=> Violated(raw) = {}
\* C14 happened: a task without description and without priority, whose
\* title is too long as well, was rejected for the missing description.
C14_Witness ==
    /\ Called
    /\ Cardinality(Violated(raw)) >= 3
    /\ raw.f["description"].kind = "absent"
    /\ raw.f["priority"].kind = "absent"
    /\ verdict.error_message = "Missing required field: description"

\* C15: sanitize_task returns title and description without leading and
\* trailing whitespace, priority trimmed and lower-cased, due_date trimmed
\* when it is present and non-empty and no due_date key otherwise, and no
\* other key; on a task that validate_task accepts it does not raise, and
\* sanitizing its result again changes nothing.
Trimmed(out, in) ==
    /\ out.kind = "str" /\ out.lead = 0 /\ out.trail = 0
    /\ out.text = in.text /\ out.len = in.len
LowerCased(out, in) ==
    /\ out.kind = "str" /\ out.lead = 0 /\ out.trail = 0 /\ out.len = in.len
    /\ out.text = (IF in.text = "HIGH" THEN "high" ELSE in.text)
Sanitized == sanitized.raises # "not called"
C15_SanitizeNormalizes ==
    Sanitized =>
        /\ validate_task(raw).is_valid => sanitized.raises = "none"
        /\ sanitized.raises = "none" =>
                /\ Trimmed(sanitized.value["title"], raw.f["title"])
                /\ Trimmed(sanitized.value["description"], raw.f["description"])
                /\ LowerCased(sanitized.value["priority"], raw.f["priority"])
                /\ IF raw.f["due_date"].kind = "str" /\ py_len(raw.f["due_date"]) > 0
                   THEN Trimmed(sanitized.value["due_date"], raw.f["due_date"])
                   ELSE sanitized.value["due_date"].kind = "absent"
                /\ \A k \in {"task_id", "created_at"} : sanitized.value[k].kind = "absent"
        /\ validate_task(raw).is_valid =>
                sanitize_call(Obj(sanitized.value)) = sanitized
\* C15 happened: a valid task with a padded title and a due_date was
\* sanitized.
C15_Witness ==
    /\ Sanitized
    /\ validate_task(raw).is_valid
    /\ raw.f["title"].lead > 0
    /\ raw.f["due_date"].kind = "str"
    /\ sanitized.value["title"] = S("t", 1)


\* C16: the body of every send_message call, decoded as the consumer
\* decodes a record body, is the envelope send_to_queue built: the same
\* keys with the same values for task_id, created_at, title, description,
\* priority, and due_date when the task has one.
ConsumerDecode(message) ==
    json_loads(record_get_body(Record(MsgIdPool[1], EventStr(message.MessageBody))).text)
\* The envelope of the last invocation: its task_id, its clock read and the
\* sanitized task of the request.
BuiltEnvelope ==
    message_body(sendCalls[1].MessageDeduplicationId,
                 S(TsPool[Cardinality(issued)], 27),
                 sanitize_task(RequestDoc(request)))
C17_AcceptedTasksAreProcessed ==
    /\ batch_item_failures = <<>>
    /\ \A i \in DOMAIN outcomes : outcomes[i] \in {"pending", "none"}
    /\ cpc = "returned" => \A i \in DOMAIN records : outcomes[i] = "none"
\* C17 happened: the consumer returned from a batch of two messages, one
\* of priority medium without due_date and one with a due_date.
C17_Witness ==
    /\ cpc = "returned"
    /\ Len(records) >= 2
    /\ \A i \in DOMAIN records : attempts[i] = 1 /\ outcomes[i] = "none"
    /\ \E i, j \in DOMAIN records :
            /\ json_loads(records[i].body.text).value.f["priority"] = S("medium", 6)
            /\ json_loads(records[i].body.text).value.f["due_date"].kind = "absent"
            /\ json_loads(records[j].body.text).value.f["due_date"].kind = "str"


\* C18: every send_message call, and so every message on the queue, names
\* the one message group "task-processing", whatever the task's content
\* or priority and whichever invocation sent it.
FixedGroup(message) == message.MessageGroupId = "task-processing"
C18_SingleMessageGroup ==
    /\ \A i \in DOMAIN sendCalls : FixedGroup(sendCalls[i])
    /\ \A i \in DOMAIN queue : FixedGroup(queue[i])
    /\ \A i, j \in DOMAIN queue : queue[i].MessageGroupId = queue[j].MessageGroupId
\* C18 happened: two tasks of different priority, one with a due_date and
\* one without, are on the queue in the same group.
C18_Witness ==
    \E i, j \in DOMAIN queue :
        /\ ConsumerDecode(queue[i]).value.f["priority"] = S("low", 3)
        /\ ConsumerDecode(queue[j]).value.f["priority"] = S("high", 4)
        /\ ConsumerDecode(queue[i]).value.f["due_date"].kind = "absent"
        /\ ConsumerDecode(queue[j]).value.f["due_date"].kind = "str"
        /\ FixedGroup(queue[i]) /\ FixedGroup(queue[j])

\* C19: every response of the ingestion handler, 200, 400 and 500 alike,
\* carries Content-Type application/json and the same three
\* Access-Control-Allow headers.
FixedHeaders ==
    [ContentType              |-> "application/json",
     AccessControlAllowOrigin  |-> "*",
     AccessControlAllowHeaders |-> "Content-Type",
     AccessControlAllowMethods |-> "POST,OPTIONS"]
C19_FixedResponseHeaders ==
    request # NoEvent => response.headers = FixedHeaders
\* C19 happened: a response on the unexpected-failure path (validation
\* raised on a body that is JSON null) carries the headers.
C19_Witness ==
    /\ request # NoEvent
    /\ ValidationRaised(request)
    /\ response.statusCode = 500
    /\ response.body.error = "Internal server error"
    /\ response.headers = FixedHeaders

\* C20: when send_message raises ClientError the invocation answers 500
\* "Failed to process task" without a task_id and the message is not on
\* the queue; a 200 response with a task_id is given only when
\* send_message returned, and then the message is on the queue.
OnQueue(task_id) ==
    \E i \in DOMAIN queue : queue[i].MessageDeduplicationId = task_id
C20_AcceptedOnlyAfterEnqueue ==
    /\ lastOutcome = "ClientError" =>
            /\ response.statusCode = 500
            /\ response.body.error = "Failed to process task"
            /\ "task_id" \notin response.body.keys
            /\ ~OnQueue(sendCalls[1].MessageDeduplicationId)
    /\ lastOutcome \notin {"ok", "none"} => response.statusCode # 200
    /\ response.statusCode = 200 =>
            /\ lastOutcome = "ok"
            /\ OnQueue(response.body.task_id)
\* C20 happened: send_message raised ClientError after an earlier task had
\* been enqueued, and the answer is the 500.
C20_Witness ==
    /\ lastOutcome = "ClientError"
    /\ response.statusCode = 500
    /\ Len(sendCalls) = 1
    /\ Len(queue) = 1


\* C21: lambda_handler of the consumer always returns: a fault raised
\* while an item is handled that is neither a decode error nor a
\* ProcessingError is recorded as the failure of that item, never leaves
\* lambda_handler and never keeps the remaining items from being handled,
\* whatever the shape of the item or of its decoded body.
UnexpectedFault(i) ==
    outcomes[i] \notin {"none", "JSONDecodeError", "ProcessingError", "pending"}
C21_ConsumerAlwaysReturns ==
    /\ cpc # "raised"
    /\ \A i \in DOMAIN records :
            is_record(records[i]) /\ UnexpectedFault(i) =>
                \E j \in DOMAIN batch_item_failures :
                    batch_item_failures[j].itemIdentifier = records[i].messageId

\* C22: process_task returns or raises ProcessingError and nothing else,
\* for every decoded payload.
C22_OnlyProcessingError ==
    \A i \in DOMAIN processed : processed[i].raises \in {"none", "ProcessingError"}


\* C23: the body of every enqueued message holds the generated task_id
\* and created_at and the sanitized title, description, priority and
\* optional due_date, and nothing the caller supplied under another key: a
\* task_id or created_at of the request never reaches the message.
Messages == {queue[i] : i \in DOMAIN queue} \cup {sendCalls[i] : i \in DOMAIN sendCalls}
Timestamps == {S(TsPool[i], 27) : i \in DOMAIN TsPool}
CallerSupplied == S("caller-supplied", 15)
C23_OnlyGeneratedMetadata ==
    \A m \in Messages :
        /\ ConsumerDecode(m).value.kind = "object"
        /\ ConsumerDecode(m).value.f["task_id"] \in {S(u, 36) : u \in UUIDs}
        /\ ConsumerDecode(m).value.f["created_at"] \in Timestamps
        /\ \A k \in Keys : ConsumerDecode(m).value.f[k] # CallerSupplied
\* C23 happened: a request that supplies its own created_at was enqueued
\* and the message carries the clock read of the build.
C23_Witness ==
    /\ response.statusCode = 200
    /\ RequestDoc(request).f["created_at"] = CallerSupplied
    /\ RequestDoc(request).f["task_id"] = CallerSupplied
    /\ Len(sendCalls) = 1
    /\ ConsumerDecode(sendCalls[1]).value.f["created_at"] = S(TsPool[1], 27)
    /\ sendCalls[1] \in {queue[i] : i \in DOMAIN queue}

\* C24: every message on the queue is a normalized valid task: priority
\* is low, medium or high, and is the request's priority unchanged; title
\* and description are non-empty without leading or trailing whitespace;
\* task_id and created_at are present.
NormalizedText(v) == v.kind = "str" /\ v.lead = 0 /\ v.trail = 0 /\ v.len >= 1
NormalizedMessage(m) ==
    /\ ConsumerDecode(m).value.f["priority"] \in {S("low", 3), S("medium", 6), S("high", 4)}
    /\ NormalizedText(ConsumerDecode(m).value.f["title"])
    /\ NormalizedText(ConsumerDecode(m).value.f["description"])
    /\ ConsumerDecode(m).value.f["task_id"].kind = "str"
    /\ ConsumerDecode(m).value.f["created_at"].kind = "str"
C24_QueuedTasksAreNormalized ==
    /\ \A i \in DOMAIN queue : NormalizedMessage(queue[i])
    /\ \A i \in DOMAIN sendCalls :
            /\ NormalizedMessage(sendCalls[i])
            /\ ConsumerDecode(sendCalls[i]).value.f["priority"] =
                    RequestDoc(request).f["priority"]
\* C24 happened: a request whose title is padded with whitespace was
\* enqueued, and a second message is on the queue.
C24_Witness ==
    /\ Len(queue) >= 2
    /\ Len(sendCalls) = 1
    /\ RequestDoc(request).f["title"] = Str(1, "t", 1, 1)
    /\ ConsumerDecode(queue[Len(queue)]).value.f["title"] = S("t", 1)
    /\ queue[Len(queue)] = sendCalls[1]

\* C25: a body that is JSON but no JSON object (null, a number, a string,
\* an array) is answered with a 400 rejection and no send_message call.
NonObjectBody(event) ==
    /\ event.body = "str"
    /\ event.text.wellformed
    /\ RequestDoc(event).kind # "object"
C25_NonObjectBodyRejected ==
    NonObjectBody(request) => Rejected400(response) /\ sendCalls = <<>>

\* A record of the running invocation whose message was delivered before.
Redelivered(i) == history[records[i].messageId] # {}
\* C26: under at-least-once delivery a message's outcome is the same on
\* every delivery: over all the invocations that received it, in one batch
\* or several, it was either never reported as failed or reported as failed
\* every time, as its body decides.
C26_SameOutcomeOnRedelivery ==
    /\ \A id \in MsgIds :
            history[id] \subseteq
                {IF OwnOutcome(Record(id, StoredBody(id))) = "none"
                 THEN "succeeded" ELSE "failed"}
    /\ cpc = "returned" =>
            \A i \in DOMAIN records :
                Redelivered(i) => history[records[i].messageId] = DeliveryOutcomes(records[i].messageId)
\* C26 happened: an invocation returned whose batch held a message that had
\* failed before and is reported again, twice in this batch, and a message
\* that had succeeded before and is not reported.
C26_Witness ==
    /\ cpc = "returned"
    /\ \E i, j, k \in DOMAIN records :
            /\ i # j
            /\ records[i].messageId = records[j].messageId
            /\ history[records[i].messageId] = {"failed"}
            /\ ReportedFailed(i)
            /\ history[records[k].messageId] = {"succeeded"}
            /\ ~ReportedFailed(k)

\* A step of the running consumer invocation: the loop advances or returns.
ConsumerActs == cpc = "loop" /\ (idx' # idx \/ cpc' # cpc)
\* C27: the batch consumer only reads: a step of an invocation leaves the
\* queue and everything else the broker and the ingestion side hold
\* unchanged, leaves the received records unchanged, and has handled no
\* record more than once; it changes only its own loop state and the
\* failed identifiers it returns.
C27_ConsumerOnlyReads ==
    [][ConsumerActs =>
            /\ apiVars' = apiVars
            /\ records' = records
            /\ history' = history
            /\ \A i \in DOMAIN records : attempts'[i] <= 1]_vars
\* C27 happened: an invocation handled a batch of several messages, each
\* once, and returned while the queue still holds every one of them.
C27_Witness ==
    /\ cpc = "returned"
    /\ Len(records) >= 2
    /\ Len(queue) >= Len(records)
    /\ \A i \in DOMAIN records :
            attempts[i] = 1 /\ records[i] = RecordOf(i, queue[i])

====
